---- MODULE Spec2Model ----
(***************************************************************************)
(* Course navigation and progress tracking of react-on-steroids.           *)
(*                                                                         *)
(* Three machines share this module.                                       *)
(*  - The catalog machine: the static catalog (lib/course-data.ts), its    *)
(*    queries, the static route generation and the chapter page render     *)
(*    (app/course/[part]/[slug]/page.tsx, components/chapter-content.tsx). *)
(*  - The progress machine: browser tabs sharing one localStorage, each    *)
(*    with a sidebar (components/course-sidebar.tsx) and a chapter page.   *)
(*                                                                         *)
(*  - The typewriter components (components/typewriter.tsx): Typewriter    *)
(*    and MultilineTypewriter with their timers.                           *)
(*                                                                         *)
(* They share no mutable state (the catalog is only read), so each has its *)
(* own next-state relation and specifications.                             *)
(*                                                                         *)
(* A chapter keeps the fields the navigation and progress code reads: id,  *)
(* number and slug (title, path and isNew are only displayed).  A route    *)
(* /course/part<n>/<slug> is the record [part |-> n, slug |-> slug].       *)
(* The fetch of the chapter's markdown and the loading skeleton are left   *)
(* out, and so is the mobile drawer, a second SidebarContent of the tab    *)
(* that behaves as the first.                                              *)
(***************************************************************************)
EXTENDS Integers, Sequences, FiniteSets, TLC

VARIABLES
  catalogDef, \* which catalog definition the module-level courseParts holds
  build,      \* what generateStaticParams produced at build time
  page,       \* the chapter page rendered for the last route request
  nav,        \* how the last route request arose (typed route or a link)
  storage,    \* localStorage["completedChapters"], shared by every tab
  tabs,       \* per browser tab: the mounted sidebar and chapter page
  oddToggles, \* history: ids whose toggle handler ran an odd number of times
  typewriter, \* a Typewriter component: its state and pending timers
  multiline   \* a MultilineTypewriter with its TypewriterLine children

catalogVars == <<catalogDef, build, page, nav>>

progressVars == <<storage, tabs, oddToggles>>

typewriterVars == <<typewriter, multiline>>

vars == <<catalogDef, build, page, nav, storage, tabs, oddToggles,
          typewriter, multiline>>

-----------------------------------------------------------------------------
(* Bounds *)

\* Chapters of the alternative catalog definitions (SpecAnyCatalog).
MaxAltChapters == 4

\* Browser tabs open on the same origin.
NumViews == 2

\* Longest text a Typewriter is given.
MaxTextLen == 3

\* Most lines a MultilineTypewriter is given.
MaxLines == 3

\* Most lineDelay timeouts pending at a time before the parent of a
\* MultilineTypewriter stops rendering again.
MaxLineTimers == 2

-----------------------------------------------------------------------------
(* lib/course-data.ts *)

\* `undefined` where a Chapter is expected.
undefined == [id |-> "undefined", number |-> -1, slug |-> "undefined"]

courseParts ==
  <<
    [id |-> "part1", number |-> 1, chapters |-> <<
        [id |-> "ch01", number |-> 1, slug |-> "what-is-react-native"],
        [id |-> "ch02", number |-> 2, slug |-> "environment-setup"],
        [id |-> "ch03", number |-> 3, slug |-> "understanding-components"],
        [id |-> "ch04", number |-> 4, slug |-> "styling-your-app"],
        [id |-> "ch05", number |-> 5, slug |-> "handling-user-interaction"] >>],
    [id |-> "part2", number |-> 2, chapters |-> <<
        [id |-> "ch06", number |-> 6, slug |-> "props"],
        [id |-> "ch07", number |-> 7, slug |-> "state"],
        [id |-> "ch08", number |-> 8, slug |-> "lists-and-keys"],
        [id |-> "ch09", number |-> 9, slug |-> "use-effect"],
        [id |-> "ch10", number |-> 10, slug |-> "navigation"],
        [id |-> "ch11", number |-> 11, slug |-> "context-api"] >>],
    [id |-> "part3", number |-> 3, chapters |-> <<
        [id |-> "ch12", number |-> 12, slug |-> "architecture-patterns"],
        [id |-> "ch13", number |-> 13, slug |-> "advanced-state-management"],
        [id |-> "ch14", number |-> 14, slug |-> "async-operations"],
        [id |-> "ch15", number |-> 15, slug |-> "native-modules"],
        [id |-> "ch16", number |-> 16, slug |-> "testing"],
        [id |-> "ch17", number |-> 17, slug |-> "performance-production"] >>]
  >>

RECURSIVE FlatMapChapters(_)
FlatMapChapters(parts) ==
  IF parts = <<>> THEN <<>>
  ELSE Head(parts).chapters \o FlatMapChapters(Tail(parts))

\* getAllChapters with the catalog as an explicit argument.
getAllChapters_lastPartFirst(parts) ==
  IF Len(parts) = 0 THEN <<>>
  ELSE parts[Len(parts)].chapters \o FlatMapChapters(SubSeq(parts, 1, Len(parts) - 1))

getAllChapters(parts) == FlatMapChapters(parts)

\* Array.prototype.findIndex on the slug: 0-based, -1 when none matches.
findIndex(chapters, slug) ==
  LET hits == {i \in 1..Len(chapters) : chapters[i].slug = slug}
  IN  IF hits = {} THEN -1
      ELSE (CHOOSE i \in hits : \A j \in hits : i <= j) - 1

\* Mutant of getChapterBySlug: the lookup compares the id, not the slug.
getPartByNumber(parts, n) ==
  LET matches == {i \in 1..Len(parts) : parts[i].number = n}
  IN  IF matches = {} THEN undefined
      ELSE parts[CHOOSE i \in matches : \A j \in matches : i <= j]

getChapterBySlug_byId(parts, slug) ==
  LET chapters == getAllChapters(parts)
      hits == {i \in 1..Len(chapters) : chapters[i].id = slug}
  IN  IF hits = {} THEN undefined
      ELSE chapters[CHOOSE i \in hits : \A j \in hits : i <= j]

getChapterBySlug(parts, slug) ==
  LET chapters == getAllChapters(parts)
      i == findIndex(chapters, slug)
  IN  IF i >= 0 THEN chapters[i + 1] ELSE undefined

\* Mutant of getNextChapter: the lower bound test is > 0 instead of >= 0.
getNextChapter_skipsFirst(parts, currentSlug) ==
  LET chapters == getAllChapters(parts)
      currentIndex == findIndex(chapters, currentSlug)
  IN  IF currentIndex > 0 /\ currentIndex < Len(chapters) - 1
      THEN chapters[currentIndex + 2]
      ELSE undefined

getNextChapter(parts, currentSlug) ==
  LET chapters == getAllChapters(parts)
      currentIndex == findIndex(chapters, currentSlug)
  IN  IF currentIndex >= 0 /\ currentIndex < Len(chapters) - 1
      THEN chapters[currentIndex + 2]
      ELSE undefined

\* Mutant of getPreviousChapter: the bound test is > 1 instead of > 0.
getPreviousChapter_skipsSecond(parts, currentSlug) ==
  LET chapters == getAllChapters(parts)
      currentIndex == findIndex(chapters, currentSlug)
  IN  IF currentIndex > 1 THEN chapters[currentIndex] ELSE undefined

getPreviousChapter(parts, currentSlug) ==
  LET chapters == getAllChapters(parts)
      currentIndex == findIndex(chapters, currentSlug)
  IN  IF currentIndex > 0 THEN chapters[currentIndex] ELSE undefined

-----------------------------------------------------------------------------
(* app/course/[part]/[slug]/page.tsx and components/chapter-content.tsx *)

\* The part number the navigation code derives from a chapter's number.
partNumber(chapter) ==
  IF chapter.number <= 6 THEN 1 ELSE IF chapter.number <= 12 THEN 2 ELSE 3

NoRoute == [part |-> 0, slug |-> "none"]

\* The href of a previous/next button: /course/part<partNumber>/<slug>.
chapterHref(chapter) ==
  IF chapter = undefined THEN NoRoute
  ELSE [part |-> partNumber(chapter), slug |-> chapter.slug]

\* generateStaticParams: one {part, slug} per chapter of getAllChapters().
generateStaticParams(parts) ==
  LET chapters == getAllChapters(parts)
  IN  [chapters |-> chapters,
       params   |-> [i \in 1..Len(chapters) |->
                       [part |-> partNumber(chapters[i]),
                        slug |-> chapters[i].slug]],
       done     |-> TRUE]

\* ChapterPage renders ChapterContent for the slug; the part parameter is
\* destructured and not used.  ChapterContent resolves the chapter and its
\* neighbours and shows the chapter, or the "Chapter Not Found" card.
ChapterPage(parts, part, slug) ==
  LET chapter         == getChapterBySlug(parts, slug)
      nextChapter     == getNextChapter(parts, slug)
      previousChapter == getPreviousChapter(parts, slug)
  IN  [part            |-> part,
       slug            |-> slug,
       shown           |-> IF chapter = undefined THEN "notFound" ELSE "chapter",
       chapter         |-> chapter,
       nextChapter     |-> nextChapter,
       previousChapter |-> previousChapter,
       nextHref        |-> chapterHref(nextChapter),
       previousHref    |-> chapterHref(previousChapter)]

NoPage ==
  [part |-> 0, slug |-> "none", shown |-> "none", chapter |-> undefined,
   nextChapter |-> undefined, previousChapter |-> undefined,
   nextHref |-> NoRoute, previousHref |-> NoRoute]

NoBuild == [chapters |-> <<>>, params |-> <<>>, done |-> FALSE]

-----------------------------------------------------------------------------
(* The sidebar and the chapter links of the pages *)

\* usePathname() on the route /course/part<part>/<slug>.
pathname(part, slug) == "/course/part" \o ToString(part) \o "/" \o slug

\* String.prototype.includes: searchString occurs somewhere in string.
includes(string, searchString) ==
  \E i \in 1..(Len(string) - Len(searchString) + 1) :
    SubSeq(string, i, i + Len(searchString) - 1) = searchString

\* CourseSidebar.isChapterActive.
isChapterActive(path, slug) == includes(path, slug)

\* The places <<part index, chapter index>> of the sidebar's chapter
\* entries that are rendered with the active style.
activeEntries(parts, path) ==
  UNION {{<<i, j>> : j \in {k \in 1..Len(parts[i].chapters) :
                              isChapterActive(path, parts[i].chapters[k].slug)}} :
           i \in 1..Len(parts)}

\* The sidebar effect's auto-open: pathname.match(/\/course\/part(\d+)/),
\* then setOpenParts([`part${match[1]}`]).  The routes of this model carry
\* one digit after "part".
openParts(path) ==
  {"part" \o ToString(n) : n \in {d \in 0..9 :
       SubSeq(path, 1, 13) = "/course/part" \o ToString(d)}}

\* The accordion items shown open: those whose value (part.id) is in
\* openParts.
openedParts(parts, path) == {i \in 1..Len(parts) : parts[i].id \in openParts(path)}

courseStats == [totalChapters |-> 17, totalParts |-> 3]

progressCounter_eighteen(completedChapters) ==
  [completed |-> Cardinality(completedChapters), total |-> 18]

\* The sidebar's "{completedChapters.size} / 17 chapters completed".
progressCounter(completedChapters) ==
  [completed |-> Cardinality(completedChapters), total |-> 17]

\* href of the sidebar's chapter entries: /course/part${part.number}/${chapter.slug}.
sidebarLinks(parts) ==
  UNION {{[part |-> parts[i].number, slug |-> parts[i].chapters[j].slug] :
            j \in 1..Len(parts[i].chapters)} : i \in 1..Len(parts)}

\* href of the fixed "Start Learning" buttons of the home and overview pages.
StartLearning == [part |-> 1, slug |-> "what-is-react-native"]

\* Course overview page: one link per chapter, and the fixed button.
courseOverviewLinks(parts) == sidebarLinks(parts) \cup {StartLearning}

\* Home page: "Start Part N" links to the part's first chapter, and the
\* fixed buttons.
homeLinks(parts) ==
  {[part |-> parts[i].number, slug |-> parts[i].chapters[1].slug] :
     i \in {k \in 1..Len(parts) : Len(parts[k].chapters) > 0}}
    \cup {StartLearning}

-----------------------------------------------------------------------------
(* Inputs of the catalog machine *)

\* Slugs routing can supply that name no chapter (an id is not a slug).
UnknownSlugs == {"does-not-exist", "ch01"}

CatalogSlugs(parts) ==
  {getAllChapters(parts)[i].slug : i \in 1..Len(getAllChapters(parts))}

SlugInputs(parts) == CatalogSlugs(parts) \cup UnknownSlugs

\* part<n> for every part number of the catalog, and one that names no part.
PartParams(parts) == 1..(Len(parts) + 1)

\* Alternative catalog definitions: the first MaxAltChapters chapters of the
\* shipped catalog, listed in any order and split over two parts numbered 1
\* and 2 in either listing order.
PoolChapters == SubSeq(getAllChapters(courseParts), 1, MaxAltChapters)

Orderings ==
  {p \in [1..MaxAltChapters -> 1..MaxAltChapters] :
     \A i, j \in 1..MaxAltChapters : i # j => p[i] # p[j]}

AltPart(n, p, from, to) ==
  [id       |-> IF n = 1 THEN "part1" ELSE "part2",
   number   |-> n,
   chapters |-> [i \in 1..(to - from + 1) |-> PoolChapters[p[from + i - 1]]]]

\* The alternative definition that lists part `first` first, with the first
\* `split` chapters of the ordering, and the other part after it.
AltCatalog(def) ==
  <<AltPart(def.first, def.order, 1, def.split),
    AltPart(3 - def.first, def.order, def.split + 1, MaxAltChapters)>>

Shipped == [name |-> "courseParts", first |-> 1, split |-> 0, order |-> <<>>]

CatalogDefs ==
  {Shipped} \cup
    {[name |-> "alternative", first |-> n, split |-> k, order |-> p] :
       n \in {1, 2}, k \in 1..(MaxAltChapters - 1), p \in Orderings}

\* Defective catalog definitions: an alternative definition in which the
\* chapter listed at position `dup` repeats the identifier, the slug or the
\* sequence number of the chapter listed first.
DupFields == {"id", "slug", "number"}

DupPositions == {2, MaxAltChapters}

ListedChapter(def, k) ==
  LET own   == PoolChapters[def.order[k]]
      first == PoolChapters[def.order[1]]
  IN  IF k # def.dup THEN own
      ELSE IF def.field = "id" THEN [own EXCEPT !.id = first.id]
      ELSE IF def.field = "slug" THEN [own EXCEPT !.slug = first.slug]
      ELSE [own EXCEPT !.number = first.number]

DefectivePart(n, def, from, to) ==
  [id       |-> IF n = 1 THEN "part1" ELSE "part2",
   number   |-> n,
   chapters |-> [i \in 1..(to - from + 1) |-> ListedChapter(def, from + i - 1)]]

DefectiveCatalog(def) ==
  <<DefectivePart(def.first, def, 1, def.split),
    DefectivePart(3 - def.first, def, def.split + 1, MaxAltChapters)>>

DefectiveDefs ==
  {[name |-> "defective", first |-> n, split |-> k, order |-> p,
    field |-> f, dup |-> d] :
      n \in {1, 2}, k \in 1..(MaxAltChapters - 1), p \in Orderings,
      f \in DupFields, d \in DupPositions}

\* The part list the queries read. The module evaluates the literal as
\* written: nothing inspects it before the queries use it.
catalog ==
  IF catalogDef.name = "courseParts" THEN courseParts
  ELSE IF catalogDef.name = "alternative" THEN AltCatalog(catalogDef)
  ELSE DefectiveCatalog(catalogDef)

-----------------------------------------------------------------------------
(* Actions of the catalog machine *)

GenerateStaticParams_sortsCourseParts ==
  /\ build' = generateStaticParams(catalog)
  /\ catalogDef' =
       IF catalogDef.name = "alternative" /\ catalogDef.first = 2
       THEN LET k == MaxAltChapters - catalogDef.split
            IN  [catalogDef EXCEPT
                   !.first = 1,
                   !.split = k,
                   !.order = [i \in 1..MaxAltChapters |->
                                IF i <= k THEN catalogDef.order[catalogDef.split + i]
                                ELSE catalogDef.order[i - k]]]
       ELSE catalogDef
  /\ UNCHANGED <<page, nav>>
  /\ UNCHANGED <<progressVars, typewriterVars>>

\* next build: generateStaticParams runs once per build.
GenerateStaticParams ==
  /\ build' = generateStaticParams(catalog)
  /\ UNCHANGED <<catalogDef, page, nav>>
  /\ UNCHANGED <<progressVars, typewriterVars>>

\* External routing supplies a (part, slug) pair.
RequestRoute ==
  \E part \in PartParams(catalog), slug \in SlugInputs(catalog) :
    /\ page' = ChapterPage(catalog, part, slug)
    /\ nav' = [via |-> "route", from |-> undefined]
    /\ UNCHANGED <<catalogDef, build>>
    /\ UNCHANGED <<progressVars, typewriterVars>>

\* The reader follows the Next button of the displayed chapter.
FollowNext ==
  /\ page.shown = "chapter"
  /\ page.nextChapter # undefined
  /\ page' = ChapterPage(catalog, page.nextHref.part, page.nextHref.slug)
  /\ nav' = [via |-> "next", from |-> page.chapter]
  /\ UNCHANGED <<catalogDef, build>>
  /\ UNCHANGED <<progressVars, typewriterVars>>

\* The reader follows the Previous button of the displayed chapter.
FollowPrevious ==
  /\ page.shown = "chapter"
  /\ page.previousChapter # undefined
  /\ page' = ChapterPage(catalog, page.previousHref.part, page.previousHref.slug)
  /\ nav' = [via |-> "previous", from |-> page.chapter]
  /\ UNCHANGED <<catalogDef, build>>
  /\ UNCHANGED <<progressVars, typewriterVars>>

\* The reader clicks a chapter link of the sidebar, the course overview or
\* the home page.
FollowLink ==
  \E href \in sidebarLinks(catalog) \cup courseOverviewLinks(catalog)
                \cup homeLinks(catalog) :
    /\ page' = ChapterPage(catalog, href.part, href.slug)
    /\ nav' = [via |-> "link", from |-> undefined]
    /\ UNCHANGED <<catalogDef, build>>
    /\ UNCHANGED <<progressVars, typewriterVars>>

\* Some caller asks for a part by its number.
GetPartByNumber ==
  \E n \in PartParams(catalog) :
    /\ LET found == getPartByNumber(catalog, n)
       IN  found = undefined \/ found.number = n
    /\ UNCHANGED <<catalogVars, progressVars, typewriterVars>>

NextCatalog ==
  \/ GenerateStaticParams
  \/ GetPartByNumber
  \/ RequestRoute
  \/ FollowNext
  \/ FollowPrevious
  \/ FollowLink

-----------------------------------------------------------------------------
(* localStorage and the JSON conversions of the completion record *)

\* A stored item: getItem's null (key absent), the text of a JSON array of
\* strings, text that is not JSON, or the JSON text of an object.
NullItem == [kind |-> "null", items |-> <<>>]

NotJson == [kind |-> "notjson", items |-> <<>>]

JsonObject == [kind |-> "object", items |-> <<>>]

\* `if (saved)` / `saved ? ... : ...`: null is falsy, the texts are not empty.
Truthy(saved) == saved.kind # "null"

Range(seq) == {seq[i] : i \in 1..Len(seq)}

\* A JS Set keeps insertion order: a sequence without repetitions.
RECURSIVE NewSet(_)
NewSet(array) ==
  IF array = <<>> THEN <<>>
  ELSE LET rest == NewSet(SubSeq(array, 1, Len(array) - 1))
           x == array[Len(array)]
       IN  IF x \in Range(rest) THEN rest ELSE Append(rest, x)

SetAdd_push(set, x) == Append(set, x)

SetAdd(set, x) == IF x \in Range(set) THEN set ELSE Append(set, x)

SetDelete(set, x) ==
  LET Keep(y) == y # x
  IN  SelectSeq(set, Keep)

\* JSON.stringify([...completed]): the text of the array of the Set's
\* elements in insertion order.
JSONstringify(set) == [kind |-> "array", items |-> set]

\* new Set(JSON.parse(saved)) for a truthy saved: JSON.parse throws a
\* SyntaxError on text that is not JSON, new Set throws a TypeError on an
\* object (not iterable); otherwise the Set of the array's elements.
ParseSet(saved) ==
  IF saved.kind = "array"
  THEN [threw |-> FALSE, set |-> NewSet(saved.items)]
  ELSE [threw |-> TRUE, set |-> <<>>]

-----------------------------------------------------------------------------
(* components/course-sidebar.tsx and components/chapter-content.tsx *)

Views == 1..NumViews

\* Slugs of the routes the tabs visit: a chapter of part 1, a chapter of
\* part 2, and a slug that names no chapter (the page then shows only
\* "Chapter Not Found").
RouteSlugs == {"what-is-react-native", "props", "does-not-exist"}

\* SidebarContent.loadCompleted: replaces the displayed set only when the
\* stored item is truthy; an exception leaves the state as it was.
loadCompleted(completedChapters, saved) ==
  IF ~Truthy(saved)
  THEN [threw |-> FALSE, completedChapters |-> completedChapters]
  ELSE IF ParseSet(saved).threw
  THEN [threw |-> TRUE, completedChapters |-> completedChapters]
  ELSE [threw |-> FALSE, completedChapters |-> Range(ParseSet(saved).set)]

\* ChapterContent's effect: the initial isCompleted of a freshly mounted
\* chapter page (useState(false), then the check against storage).
loadIsCompleted(chapter, saved) ==
  IF chapter = undefined \/ ~Truthy(saved)
  THEN [threw |-> FALSE, isCompleted |-> FALSE]
  ELSE IF ParseSet(saved).threw
  THEN [threw |-> TRUE, isCompleted |-> FALSE]
  ELSE [threw |-> FALSE, isCompleted |-> chapter.id \in Range(ParseSet(saved).set)]

\* A tab that was never opened, one that was closed, and one whose tree was
\* torn down because an effect threw (no component and no listener left).
NoTab(status, slug) ==
  [status |-> status, slug |-> IF status = "Crashed" THEN slug ELSE "none", isCompleted |-> FALSE,
   completedChapters |-> {}, listeners |-> 0, pending |-> FALSE]

\* The tab after the route's components ran their effects: the sidebar effect
\* (loadCompleted, then addEventListener) and the chapter page's effect.
\* previous is the sidebar's set before the effect, pending the tab's
\* undelivered storage event.
Mounted(slug, previous, pending, saved) ==
  LET chapter == getChapterBySlug(catalog, slug)
      side == loadCompleted(previous, saved)
      chap == loadIsCompleted(chapter, saved)
  IN  IF side.threw \/ chap.threw
      THEN NoTab("Crashed", slug)
      ELSE [status |-> "Loaded", slug |-> slug,
            isCompleted |-> chap.isCompleted,
            completedChapters |-> side.completedChapters,
            listeners |-> 1, pending |-> pending]

toggledRecord_discardsOthers(saved, isCompleted, id) ==
  IF isCompleted THEN <<>> ELSE <<id>>

\* ChapterContent.toggleCompleted, on the record: the stored Set with the
\* chapter deleted when this page shows it completed, added otherwise.
toggledRecord(saved, isCompleted, id) ==
  LET completed == IF Truthy(saved) THEN ParseSet(saved).set ELSE <<>>
  IN  IF isCompleted THEN SetDelete(completed, id) ELSE SetAdd(completed, id)

Notified_none(t, changed) == t

\* The storage medium queues a storage event for every other open tab when
\* a write changes the item (a write of the same text queues none).  The
\* event carries nothing the listener reads, and the listener re-reads the
\* item, so the events queued for a tab are kept as one flag: delivering it
\* stands for delivering all of them.
Notified(t, changed) ==
  IF changed /\ t.status = "Loaded" THEN [t EXCEPT !.pending = TRUE] ELSE t

-----------------------------------------------------------------------------
(* Actions of the progress machine *)

SetHas_adds(set, x) == [value |-> x \in set, set |-> set \cup {x}]

\* Set.prototype.has: the answer, and the Set as the call leaves it.
SetHas(set, x) == [value |-> x \in set, set |-> set]

\* CourseSidebar.isChapterCompleted.
isChapterCompleted(completedChapters, chapterId) ==
  SetHas(completedChapters, chapterId)

\* A render of the sidebar asks isChapterCompleted for every chapter of every
\* part in turn: the marks it displays and the Set it leaves behind.
RECURSIVE renderChapters(_, _)
renderChapters(completedChapters, chapters) ==
  IF chapters = <<>> THEN [marked |-> {}, completedChapters |-> completedChapters]
  ELSE LET asked == isChapterCompleted(completedChapters, Head(chapters).id)
           rest  == renderChapters(asked.set, Tail(chapters))
       IN  [marked |-> (IF asked.value THEN {Head(chapters).id} ELSE {})
                         \cup rest.marked,
            completedChapters |-> rest.completedChapters]

completedCount_bySlug(part, completedChapters) ==
  Cardinality({j \in 1..Len(part.chapters) :
                 isChapterCompleted(completedChapters, part.chapters[j].slug).value})

\* The badge of a part: part.chapters.filter(ch => isChapterCompleted(ch.id)).length.
completedCount(part, completedChapters) ==
  Cardinality({j \in 1..Len(part.chapters) :
                 isChapterCompleted(completedChapters, part.chapters[j].id).value})

\* The badges of all parts, in the order the sidebar renders them.
partBadges(parts, completedChapters) ==
  [i \in 1..Len(parts) |->
     [completed |-> completedCount(parts[i], completedChapters),
      total     |-> Len(parts[i].chapters)]]

listenersAfterEffect_noCleanup(before) == before + 1

\* The sidebar effect run again for a new pathname: the cleanup of the
\* previous run removes the listener that run added, then the effect adds
\* the listener of this run.
listenersAfterEffect(before) == (IF before > 0 THEN before - 1 ELSE 0) + 1

\* A tab is opened on a route.
Open(v) ==
  \E slug \in RouteSlugs :
    /\ tabs[v].status = "Uninitialized"
    /\ tabs' = [tabs EXCEPT ![v] = Mounted(slug, {}, FALSE, storage)]
    /\ UNCHANGED <<storage, oddToggles>>
    /\ UNCHANGED <<catalogVars, typewriterVars>>

\* The tab is reloaded: a fresh start of the application in the same tab.
Reload(v) ==
  /\ tabs[v].status \in {"Loaded", "Crashed"}
  /\ tabs' = [tabs EXCEPT ![v] = Mounted(tabs[v].slug, {}, FALSE, storage)]
  /\ UNCHANGED <<storage, oddToggles>>
  /\ UNCHANGED <<catalogVars, typewriterVars>>

\* A link is followed inside the tab: the layout (the sidebar) stays mounted
\* and its effect runs again for the new pathname (cleanup removes the old
\* listener first); the chapter page is mounted anew.
Navigate(v) ==
  \E slug \in RouteSlugs \ {tabs[v].slug} :
    /\ tabs[v].status = "Loaded"
    /\ tabs' = [tabs EXCEPT ![v] =
                  LET m == Mounted(slug, tabs[v].completedChapters,
                                   tabs[v].pending, storage)
                  IN  IF m.status # "Loaded" THEN m
                      ELSE [m EXCEPT !.listeners =
                                       listenersAfterEffect(tabs[v].listeners)]]
    /\ UNCHANGED <<storage, oddToggles>>
    /\ UNCHANGED <<catalogVars, typewriterVars>>

getItemAtDispatch_beforeWrite(saved, written) == saved

\* What the sidebar listener's getItem returns when toggleCompleted
\* dispatches the "storage" event: setItem has already run, so the item is
\* the text just written, not the one the handler read.
getItemAtDispatch(saved, written) == written

ToggleCore_noLocalUpdate(v) ==
  LET t == tabs[v]
      chapter == getChapterBySlug(catalog, t.slug)
      threw == Truthy(storage) /\ ParseSet(storage).threw
      written == JSONstringify(toggledRecord(storage, t.isCompleted, chapter.id))
  IN  /\ t.status = "Loaded"
      /\ chapter # undefined
      /\ IF threw
         THEN UNCHANGED <<storage, tabs>>
         ELSE /\ storage' = written
              /\ tabs' = [w \in Views |->
                            IF w = v THEN [t EXCEPT !.pending = TRUE]
                            ELSE Notified(tabs[w], written # storage)]
      /\ UNCHANGED <<catalogVars, typewriterVars>>

\* The "Mark as Complete" / "Completed" button is clicked.  An exception
\* while reading the record ends the handler before anything is written.
\* Otherwise: setItem, setIsCompleted, and the dispatched "storage" event
\* runs this tab's own sidebar listener before the handler returns.
ToggleCore(v) ==
  LET t == tabs[v]
      chapter == getChapterBySlug(catalog, t.slug)
      threw == Truthy(storage) /\ ParseSet(storage).threw
      written == JSONstringify(toggledRecord(storage, t.isCompleted, chapter.id))
      mine == [t EXCEPT !.isCompleted = ~t.isCompleted,
                        !.completedChapters =
                          IF t.listeners > 0
                          THEN loadCompleted(t.completedChapters,
                                             getItemAtDispatch(storage, written)).completedChapters
                          ELSE t.completedChapters]
  IN  /\ t.status = "Loaded"
      /\ chapter # undefined
      /\ IF threw
         THEN UNCHANGED <<storage, tabs>>
         ELSE /\ storage' = written
              /\ tabs' = [w \in Views |->
                            IF w = v THEN mine
                            ELSE Notified(tabs[w], written # storage)]
      /\ UNCHANGED <<catalogVars, typewriterVars>>

Toggle(v) ==
  /\ ToggleCore(v)
  /\ UNCHANGED oddToggles

\* Toggle, with the parity of the handler's runs per chapter recorded.
ToggleCounted(v) ==
  LET id == getChapterBySlug(catalog, tabs[v].slug).id
  IN  /\ ToggleCore(v)
      /\ oddToggles' = IF id \in oddToggles
                       THEN oddToggles \ {id}
                       ELSE oddToggles \cup {id}

\* A queued storage event reaches the tab: the sidebar listener runs.
Deliver(v) ==
  LET t == tabs[v]
      side == loadCompleted(t.completedChapters, storage)
  IN  /\ t.status = "Loaded"
      /\ t.pending
      /\ tabs' = [tabs EXCEPT ![v] =
                    [t EXCEPT !.pending = FALSE,
                              !.completedChapters = side.completedChapters]]
      /\ UNCHANGED <<storage, oddToggles>>
      /\ UNCHANGED <<catalogVars, typewriterVars>>

Close_removesItem(v) ==
  /\ tabs[v].status \in {"Loaded", "Crashed"}
  /\ tabs' = [tabs EXCEPT ![v] = NoTab("Unmounted", tabs[v].slug)]
  /\ storage' = NullItem
  /\ UNCHANGED oddToggles
  /\ UNCHANGED <<catalogVars, typewriterVars>>

\* The tab is closed: the components unmount and the listener is removed.
Close(v) ==
  /\ tabs[v].status \in {"Loaded", "Crashed"}
  /\ tabs' = [tabs EXCEPT ![v] = NoTab("Unmounted", tabs[v].slug)]
  /\ UNCHANGED <<storage, oddToggles>>
  /\ UNCHANGED <<catalogVars, typewriterVars>>

\* The sidebar of the tab renders (any state change or parent render causes
\* one): every chapter row asks isChapterCompleted.
RenderSidebar(v) ==
  /\ tabs[v].status = "Loaded"
  /\ tabs' = [tabs EXCEPT ![v].completedChapters =
                renderChapters(@, getAllChapters(catalog)).completedChapters]
  /\ UNCHANGED <<storage, oddToggles>>
  /\ UNCHANGED <<catalogVars, typewriterVars>>

\* Outside the application the stored item is overwritten with text that is
\* not a JSON array (another script of the origin, the developer tools).
EnvCorrupt ==
  \E item \in {NotJson, JsonObject} :
    /\ storage # item
    /\ storage' = item
    /\ tabs' = [w \in Views |-> Notified(tabs[w], TRUE)]
    /\ UNCHANGED oddToggles
    /\ UNCHANGED <<catalogVars, typewriterVars>>

\* The user clears the site's storage: the key is removed.
EnvClear ==
  /\ storage # NullItem
  /\ storage' = NullItem
  /\ tabs' = [w \in Views |-> Notified(tabs[w], TRUE)]
  /\ UNCHANGED oddToggles
  /\ UNCHANGED <<catalogVars, typewriterVars>>

Next ==
  \/ \E v \in Views : Open(v)
  \/ \E v \in Views : Reload(v)
  \/ \E v \in Views : Navigate(v)
  \/ \E v \in Views : Toggle(v)
  \/ \E v \in Views : Deliver(v)
  \/ \E v \in Views : Close(v)
  \/ \E v \in Views : RenderSidebar(v)

NextEnv ==
  \/ \E v \in Views : Open(v)
  \/ \E v \in Views : Reload(v)
  \/ \E v \in Views : Navigate(v)
  \/ \E v \in Views : Toggle(v)
  \/ \E v \in Views : Deliver(v)
  \/ \E v \in Views : Close(v)
  \/ \E v \in Views : RenderSidebar(v)
  \/ EnvCorrupt
  \/ EnvClear

NextCounted ==
  \/ \E v \in Views : Open(v)
  \/ \E v \in Views : Reload(v)
  \/ \E v \in Views : Navigate(v)
  \/ \E v \in Views : ToggleCounted(v)
  \/ \E v \in Views : Deliver(v)
  \/ \E v \in Views : Close(v)
  \/ \E v \in Views : RenderSidebar(v)

-----------------------------------------------------------------------------
(* components/typewriter.tsx: Typewriter *)

\* The texts a Typewriter is given: the strings over two letters.
RECURSIVE Strings(_)
Strings(n) ==
  IF n = 0 THEN {""}
  ELSE Strings(n - 1) \cup {x \o c : x \in Strings(n - 1), c \in {"a", "b"}}

Texts == Strings(MaxTextLen)

\* No timeout pending.
NoTimeout == -1

NoTypewriter ==
  [status |-> "none", text |-> "", displayedText |-> "", currentIndex |-> 0,
   started |-> FALSE, startTimeout |-> FALSE, timeout |-> NoTimeout]

charAt_next(text, index) ==
  IF index + 1 < Len(text) THEN SubSeq(text, index + 2, index + 2)
  ELSE "undefined"

\* text[index]: the character at the 0-based index; past the end the
\* concatenation appends the text of undefined.
charAt(text, index) ==
  IF index < Len(text) THEN SubSeq(text, index + 1, index + 1)
  ELSE "undefined"

\* The typing effect, run after a render in which one of its dependencies
\* changed (the cleanup of the run before has cleared that run's timeout):
\* the timeout it leaves pending, as the currentIndex its callback captured.
typingEffect(text, started, currentIndex) ==
  IF started /\ currentIndex < Len(text) THEN currentIndex ELSE NoTimeout

\* The component mounts: the start effect sets startTimeout, the typing
\* effect returns at `if (!started)`.
MountTypewriter ==
  \E text \in Texts :
    /\ typewriter.status = "none"
    /\ typewriter' =
         [status |-> "mounted", text |-> text, displayedText |-> "",
          currentIndex |-> 0, started |-> FALSE, startTimeout |-> TRUE,
          timeout |-> typingEffect(text, FALSE, 0)]
    /\ UNCHANGED <<catalogVars, progressVars, multiline>>

\* startTimeout fires after `delay`: setStarted(true), and the typing effect
\* runs for the changed `started`.
StartTimeoutFires ==
  /\ typewriter.status = "mounted"
  /\ typewriter.startTimeout
  /\ typewriter' =
       [typewriter EXCEPT
          !.started = TRUE,
          !.startTimeout = FALSE,
          !.timeout = typingEffect(typewriter.text, TRUE, typewriter.currentIndex)]
  /\ UNCHANGED <<catalogVars, progressVars, multiline>>

\* The typing timeout fires after `speed`: one character is appended,
\* currentIndex is incremented, and the typing effect runs again.
CharTimeoutFires ==
  /\ typewriter.status = "mounted"
  /\ typewriter.timeout # NoTimeout
  /\ typewriter' =
       [typewriter EXCEPT
          !.displayedText = @ \o charAt(typewriter.text, typewriter.timeout),
          !.currentIndex = @ + 1,
          !.timeout = typingEffect(typewriter.text, typewriter.started,
                                   typewriter.currentIndex + 1)]
  /\ UNCHANGED <<catalogVars, progressVars, multiline>>

\* The parent renders again with the same props: no dependency of either
\* effect changed, so no effect runs.
RerenderTypewriter ==
  /\ typewriter.status = "mounted"
  /\ UNCHANGED vars

\* The component unmounts: both cleanups clear their timeouts.
UnmountTypewriter ==
  /\ typewriter.status = "mounted"
  /\ typewriter' = [typewriter EXCEPT !.status = "unmounted",
                                      !.startTimeout = FALSE,
                                      !.timeout = NoTimeout]
  /\ UNCHANGED <<catalogVars, progressVars, multiline>>

NextTypewriter ==
  \/ MountTypewriter
  \/ StartTimeoutFires
  \/ CharTimeoutFires
  \/ RerenderTypewriter
  \/ UnmountTypewriter

-----------------------------------------------------------------------------
(* components/typewriter.tsx: MultilineTypewriter and TypewriterLine *)

\* The texts of the lines.
LineTexts == {"", "a", "ab"}

LineSeqs == UNION {[1..n -> LineTexts] : n \in 1..MaxLines}

\* A TypewriterLine as mounted: useState(""), useState(0).
NewLine == [displayedText |-> "", currentIndex |-> 0]

NoMultiline ==
  [status |-> "none", lines |-> <<>>, started |-> FALSE,
   startTimeout |-> FALSE, currentLine |-> 0, lineTimers |-> 0, rows |-> <<>>]

\* Line index (0-based, as in lines.map) is rendered as a TypewriterLine:
\* started && index <= currentLine.
lineMounted(m, index) ==
  m.started /\ index < Len(m.lines) /\ index <= m.currentLine

lineComplete(m, index) ==
  m.rows[index + 1].currentIndex = Len(m.lines[index + 1])

\* handleLineComplete of the last render: schedules the lineDelay timeout
\* when this is not the last line.
handleLineComplete(m) ==
  IF m.currentLine < Len(m.lines) - 1
  THEN [m EXCEPT !.lineTimers = @ + 1]
  ELSE m

\* MultilineTypewriter rendered: handleLineComplete is a new function, so
\* the current line's onComplete prop changed and the TypewriterLine effect
\* of that line runs again; on a line already typed in full it calls
\* onComplete().  (A line mounted by this render starts at index 0: it is
\* complete at once only when its text is empty.)
afterRender(m) ==
  IF lineMounted(m, m.currentLine) /\ lineComplete(m, m.currentLine)
  THEN handleLineComplete(m)
  ELSE m

MountMultiline ==
  \E lines \in LineSeqs :
    /\ multiline.status = "none"
    /\ multiline' =
         [status |-> "mounted", lines |-> lines, started |-> FALSE,
          startTimeout |-> TRUE, currentLine |-> 0, lineTimers |-> 0,
          rows |-> [i \in 1..Len(lines) |-> NewLine]]
    /\ UNCHANGED <<catalogVars, progressVars, typewriter>>

\* startTimeout fires: setStarted(true); the render mounts line 0.
MultilineStartFires ==
  /\ multiline.status = "mounted"
  /\ multiline.startTimeout
  /\ multiline' = afterRender([multiline EXCEPT !.started = TRUE,
                                                 !.startTimeout = FALSE])
  /\ UNCHANGED <<catalogVars, progressVars, typewriter>>

\* The typing timeout of a mounted TypewriterLine fires: one character is
\* appended; its effect runs again and, on the line typed in full whose
\* onComplete is defined (the current line), calls onComplete().
LineTimeoutFires ==
  \E index \in 0..(MaxLines - 1) :
    /\ multiline.status = "mounted"
    /\ lineMounted(multiline, index)
    /\ ~lineComplete(multiline, index)
    /\ LET row   == multiline.rows[index + 1]
           typed == [multiline EXCEPT
                       !.rows[index + 1] =
                          [displayedText |-> row.displayedText
                                               \o charAt(multiline.lines[index + 1],
                                                         row.currentIndex),
                           currentIndex  |-> row.currentIndex + 1]]
       IN  multiline' =
             IF index = typed.currentLine /\ lineComplete(typed, index)
             THEN handleLineComplete(typed)
             ELSE typed
    /\ UNCHANGED <<catalogVars, progressVars, typewriter>>

\* A lineDelay timeout fires: setCurrentLine(prev => prev + 1), and the
\* component renders.
LineDelayFires ==
  /\ multiline.status = "mounted"
  /\ multiline.lineTimers > 0
  /\ multiline' = afterRender([multiline EXCEPT !.lineTimers = @ - 1,
                                                 !.currentLine = @ + 1])
  /\ UNCHANGED <<catalogVars, progressVars, typewriter>>

\* The parent renders again, and MultilineTypewriter with it.
ParentRerender ==
  /\ multiline.status = "mounted"
  /\ multiline.lineTimers < MaxLineTimers
  /\ multiline' = afterRender(multiline)
  /\ UNCHANGED <<catalogVars, progressVars, typewriter>>

\* The component unmounts.  The lineDelay timeouts are not cleared; when
\* they fire, the state update of an unmounted component changes nothing.
UnmountMultiline ==
  /\ multiline.status = "mounted"
  /\ multiline' = [multiline EXCEPT !.status = "unmounted",
                                    !.startTimeout = FALSE,
                                    !.lineTimers = 0]
  /\ UNCHANGED <<catalogVars, progressVars, typewriter>>

NextMultiline ==
  \/ MountMultiline
  \/ MultilineStartFires
  \/ LineTimeoutFires
  \/ LineDelayFires
  \/ ParentRerender
  \/ UnmountMultiline

-----------------------------------------------------------------------------
(* Specifications *)

InitPages ==
  /\ build = NoBuild
  /\ page = NoPage
  /\ nav = [via |-> "none", from |-> undefined]

\* An empty store and no tab open.
InitProgress ==
  /\ storage = NullItem
  /\ tabs = [v \in Views |-> NoTab("Uninitialized", "none")]
  /\ oddToggles = {}

\* No typewriter component mounted yet.
InitTypewriters ==
  /\ typewriter = NoTypewriter
  /\ multiline = NoMultiline

\* The shipped catalog.
Init ==
  /\ catalogDef = Shipped
  /\ InitPages
  /\ InitProgress
  /\ InitTypewriters

\* Any catalog definition of the bounded family.
InitAnyCatalog ==
  /\ catalogDef \in CatalogDefs
  /\ InitPages
  /\ InitProgress
  /\ InitTypewriters

InitDefectiveCatalog ==
  /\ catalogDef \in DefectiveDefs
  /\ InitPages
  /\ InitProgress
  /\ InitTypewriters

\* The progress machine: the tabs of the application alone.
Spec == Init /\ [][Next]_vars

\* The progress machine with queued storage events delivered in the end:
\* while some tab has a queued event, the event loop of one of them runs
\* its listener (unless reloads or closes leave no queued event).
SpecLive == Init /\ [][Next]_vars /\ WF_vars(\E v \in Views : Deliver(v))

\* A Typewriter whose pending timeouts fire in the end, as the browser's
\* timers do while the component stays mounted.
SpecTypewriter ==
  /\ Init
  /\ [][NextTypewriter]_vars
  /\ WF_vars(StartTimeoutFires)
  /\ WF_vars(CharTimeoutFires)

\* A MultilineTypewriter whose parent may render again at any time.
SpecMultiline == Init /\ [][NextMultiline]_vars

\* The progress machine with the store also written from outside.
SpecEnv == Init /\ [][NextEnv]_vars

\* The progress machine with the toggle parity recorded.
SpecCounted == Init /\ [][NextCounted]_vars

\* The catalog machine on the shipped catalog.
SpecCatalog == Init /\ [][NextCatalog]_vars

\* The catalog machine on any catalog definition of the family.
SpecAnyCatalog == InitAnyCatalog /\ [][NextCatalog]_vars

\* The catalog machine on a catalog definition with a repeated identifier,
\* slug or sequence number.
SpecDefectiveCatalog == InitDefectiveCatalog /\ [][NextCatalog]_vars

-----------------------------------------------------------------------------
(* Claims about the progress machine *)

\* The persisted completion record: the identifiers in the stored array.
StoredIds == IF storage.kind = "array" THEN Range(storage.items) ELSE {}

\* The stored item is neither absent nor the text of a JSON array.
Corrupt == storage.kind \in {"notjson", "object"}

\* The chapter a tab's page is about (undefined when the slug names none).
ChapterOf(v) == getChapterBySlug(catalog, tabs[v].slug)

\* C1: a toggle of chapter X performed in any tab flips X's membership in
\* the persisted record, also when another tab toggled X since this tab
\* loaded it.
C1_ToggleFlipsMembership ==
  [][\A v \in Views :
       Toggle(v) => ((ChapterOf(v).id \in StoredIds') # (ChapterOf(v).id \in StoredIds))]_vars

\* C2: starting from an empty store, after any interleaving of toggles a
\* freshly started view loads exactly the identifiers toggled an odd number
\* of times.
C2_RoundTripOddToggles ==
  [][\A v \in Views :
       (Open(v) \/ Reload(v)) =>
         /\ tabs'[v].status = "Loaded"
         /\ tabs'[v].completedChapters = oddToggles]_vars

\* C3: with a stored value that is not JSON or not an array, every load of
\* the record (at start, on navigation, on a change notification) yields the
\* empty record and the view keeps working, and a toggle starts from the
\* empty record and writes an array holding at most the toggled chapter.
C3_CorruptionRecovery ==
  [][\A v \in Views :
       /\ (Corrupt /\ (Open(v) \/ Reload(v) \/ Navigate(v) \/ Deliver(v))) =>
            /\ tabs'[v].status = "Loaded"
            /\ tabs'[v].completedChapters = {}
            /\ ~tabs'[v].isCompleted
       /\ (Corrupt /\ Toggle(v)) =>
            /\ storage'.kind = "array"
            /\ Range(storage'.items) \subseteq {ChapterOf(v).id}]_vars

\* C4: a tab with no undelivered change notification displays, for every
\* chapter, the completion the persisted record holds: in its sidebar, and
\* on its chapter page for the chapter it shows.
C4_CrossViewConsistency ==
  \A v \in Views :
    (tabs[v].status = "Loaded" /\ ~tabs[v].pending) =>
      /\ tabs[v].completedChapters = StoredIds
      /\ ChapterOf(v) # undefined =>
           (tabs[v].isCompleted <=> ChapterOf(v).id \in StoredIds)

\* The sidebar half of C4 alone.
SidebarFollowsStorage ==
  \A v \in Views :
    (tabs[v].status = "Loaded" /\ ~tabs[v].pending) =>
      tabs[v].completedChapters = StoredIds

-----------------------------------------------------------------------------
(* The catalog's structure, read off the part list without the queries *)

\* <<part number, chapter>> for every chapter listed under a part.
Entries(parts) ==
  UNION {{<<parts[i].number, parts[i].chapters[j]>> :
            j \in 1..Len(parts[i].chapters)} : i \in 1..Len(parts)}

\* The numbers of the parts whose chapter list contains the chapter.
OwnerNumbers(parts, chapter) ==
  {e[1] : e \in {x \in Entries(parts) : x[2] = chapter}}

\* Global order: by part number, then by chapter number.
Before(a, b) ==
  \/ a[1] < b[1]
  \/ a[1] = b[1] /\ a[2].number < b[2].number

EntryOfSlug(parts, slug) ==
  CHOOSE e \in Entries(parts) : e[2].slug = slug

KnownSlug(parts, slug) == \E e \in Entries(parts) : e[2].slug = slug

\* The chapter immediately after (before) entry e in the global order.
Successor(parts, e) ==
  LET later == {x \in Entries(parts) : Before(e, x)}
  IN  IF later = {} THEN undefined
      ELSE (CHOOSE x \in later : \A y \in later : x = y \/ Before(x, y))[2]

Predecessor(parts, e) ==
  LET earlier == {x \in Entries(parts) : Before(x, e)}
  IN  IF earlier = {} THEN undefined
      ELSE (CHOOSE x \in earlier : \A y \in earlier : x = y \/ Before(y, x))[2]

-----------------------------------------------------------------------------
(* Claims about the catalog machine *)

\* C5: the part number the navigation code puts in a chapter's route (the
\* generated static parameters and the previous/next links) is the number of
\* the part whose chapter list contains the chapter.
C5_RoutePartIsOwningPart ==
  /\ \A i \in 1..Len(build.params) :
       OwnerNumbers(catalog, build.chapters[i]) = {build.params[i].part}
  /\ page.nextChapter # undefined =>
       OwnerNumbers(catalog, page.nextChapter) = {page.nextHref.part}
  /\ page.previousChapter # undefined =>
       OwnerNumbers(catalog, page.previousChapter) = {page.previousHref.part}

\* C6: the chapter page shows chapter content only when the slug names a
\* chapter whose owning part has the number given in the route.
C6_RouteValidated ==
  page.shown = "chapter" =>
    /\ KnownSlug(catalog, page.slug)
    /\ EntryOfSlug(catalog, page.slug)[1] = page.part

\* C7: for the rendered slug, nextChapter is the chapter immediately after it
\* in the global order and previousChapter the one immediately before it;
\* each is undefined exactly when the slug is the last (first) chapter or
\* names no chapter; the result is always a chapter or undefined.
C7_NextPreviousInOrder ==
  page.shown # "none" =>
    IF KnownSlug(catalog, page.slug)
    THEN LET e == EntryOfSlug(catalog, page.slug)
         IN  /\ page.nextChapter = Successor(catalog, e)
             /\ page.previousChapter = Predecessor(catalog, e)
             /\ (page.nextChapter = undefined) <=>
                  (\A x \in Entries(catalog) : ~Before(e, x))
             /\ (page.previousChapter = undefined) <=>
                  (\A x \in Entries(catalog) : ~Before(x, e))
    ELSE /\ page.nextChapter = undefined
         /\ page.previousChapter = undefined

\* C7 witness: the last chapter was reached by following Next links.
C7_Witness ==
  /\ nav.via = "next"
  /\ page.shown = "chapter"
  /\ page.nextChapter = undefined
  /\ page.previousChapter # undefined

\* C8: next and previous are mutual inverses: the page reached through the
\* Previous link of chapter X has X as its next chapter, and the page reached
\* through the Next link of X has X as its previous chapter.
C8_NextPreviousInverse ==
  /\ nav.via = "previous" => page.nextChapter = nav.from
  /\ nav.via = "next" => page.previousChapter = nav.from

\* C8 witness: a page reached through a Previous link.
C8_Witness ==
  /\ nav.via = "previous"
  /\ page.shown = "chapter"
  /\ nav.from # undefined

\* C9: the chapter resolved for a slug is the chapter with that slug when
\* there is one; otherwise it is undefined, the page shows "Chapter Not
\* Found" and next and previous are both undefined.
C9_LookupBySlug ==
  page.shown # "none" =>
    IF KnownSlug(catalog, page.slug)
    THEN /\ page.chapter = EntryOfSlug(catalog, page.slug)[2]
         /\ page.shown = "chapter"
    ELSE /\ page.chapter = undefined
         /\ page.shown = "notFound"
         /\ page.nextChapter = undefined
         /\ page.previousChapter = undefined

\* C9 witness: a route whose slug names no chapter was rendered.
C9_Witness ==
  /\ page.slug = "does-not-exist"
  /\ page.shown = "notFound"

\* C10: getAllChapters lists every chapter of the catalog exactly once, in
\* the order of part number, then chapter number, whatever order the catalog
\* definition lists its parts and chapters in.
C10_AllChaptersInGlobalOrder ==
  build.done =>
    /\ Len(build.chapters) = Cardinality(Entries(catalog))
    /\ \A e \in Entries(catalog) :
         Cardinality({i \in 1..Len(build.chapters) : build.chapters[i] = e[2]}) = 1
    /\ \A i, j \in 1..Len(build.chapters) :
         i < j =>
           \E a, b \in Entries(catalog) :
             /\ a[2] = build.chapters[i]
             /\ b[2] = build.chapters[j]
             /\ Before(a, b)

\* The places of the part list where a chapter is listed.
Listed(parts) ==
  UNION {{<<i, j>> : j \in 1..Len(parts[i].chapters)} : i \in 1..Len(parts)}

ChapterAt(parts, at) == parts[at[1]].chapters[at[2]]

HasDuplicates(parts) ==
  \E a, b \in Listed(parts) :
    /\ a # b
    /\ \/ ChapterAt(parts, a).id = ChapterAt(parts, b).id
       \/ ChapterAt(parts, a).slug = ChapterAt(parts, b).slug
       \/ ChapterAt(parts, a).number = ChapterAt(parts, b).number

\* C11: a catalog definition in which two chapters share an identifier, a
\* slug or a sequence number is rejected at construction, so no build listing
\* and no chapter page (lookup, next, previous) is ever produced from it.
C11_DuplicatesRejected ==
  HasDuplicates(catalog) => (build = NoBuild /\ page = NoPage)

\* C12: in the shipped catalog no two listed chapters share a slug or an
\* identifier, and the chapter numbers strictly increase along the listing
\* getAllChapters() returns.
C12_ShippedCatalogUnique ==
  /\ \A a, b \in Listed(catalog) :
       a # b => /\ ChapterAt(catalog, a).slug # ChapterAt(catalog, b).slug
                /\ ChapterAt(catalog, a).id # ChapterAt(catalog, b).id
  /\ build.done =>
       \A i, j \in 1..Len(build.chapters) :
         i < j => build.chapters[i].number < build.chapters[j].number

C12_Witness ==
  /\ catalogDef = Shipped
  /\ build.done
  /\ Len(build.chapters) = 17

\* C13: whenever the completion key is absent from storage, a load (at
\* startup, or by the listener on a change notification) yields the empty
\* record: the loading view then displays no chapter as complete.
C13_MissingStorageLoadsEmpty ==
  [][\A v \in Views :
       (storage = NullItem /\ (Open(v) \/ Reload(v) \/ Deliver(v)))
         => /\ tabs'[v].completedChapters = {}
            /\ ~tabs'[v].isCompleted]_vars

ChapterIds == {getAllChapters(catalog)[i].id : i \in 1..Len(getAllChapters(catalog))}

\* The text is a JSON array of pairwise distinct chapter identifiers.
DistinctIdArray(item) ==
  /\ item.kind = "array"
  /\ \A i, j \in 1..Len(item.items) : i # j => item.items[i] # item.items[j]
  /\ \A i \in 1..Len(item.items) : item.items[i] \in ChapterIds

\* C14: in every reachable state in which the completion key is present its
\* value is a JSON array of pairwise distinct chapter identifiers, and every
\* toggle leaves the key present with such an array as its whole value.
C14_StoredArrayDistinct ==
  /\ [](storage # NullItem => DistinctIdArray(storage))
  /\ [][\A v \in Views : Toggle(v) => DistinctIdArray(storage')]_vars

\* Two chapters are stored, one of them toggled from two tabs.
C14_Witness ==
  /\ Len(storage.items) = 2
  /\ \E v, w \in Views : v # w /\ tabs[v].isCompleted /\ tabs[w].isCompleted
                               /\ tabs[v].slug = tabs[w].slug

\* C15: toggle is the only writer of the persisted record: every step that
\* changes the value stored under the completion key is a toggle; loading at
\* startup, handling a notification, navigating and unmounting leave it as
\* it is.
C15_ToggleOnlyWriter ==
  [][storage' # storage => \E v \in Views : Toggle(v)]_vars

\* A record is stored, one tab has loaded it and shows it, another tab was
\* closed.
C15_Witness ==
  /\ storage # NullItem
  /\ StoredIds # {}
  /\ \E v, w \in Views :
       /\ tabs[v].status = "Unmounted"
       /\ tabs[w].status = "Loaded"
       /\ ~tabs[w].pending
       /\ tabs[w].completedChapters = StoredIds

\* C16: when a toggle of X returns in the originating view, with no storage
\* notification processed by that view, the view's own display of X already
\* shows the toggle: the page's flag is flipped, and the flag, the view's
\* sidebar and the record just written agree about X.
C16_OptimisticLocalUpdate ==
  [][\A v \in Views :
       Toggle(v) =>
         LET X == ChapterOf(v).id
         IN  /\ tabs'[v].isCompleted = ~tabs[v].isCompleted
             /\ (X \in tabs'[v].completedChapters) = tabs'[v].isCompleted
             /\ (X \in StoredIds') = tabs'[v].isCompleted
             /\ tabs'[v].pending = tabs[v].pending]_vars

\* A tab shows its chapter as complete in page and sidebar while the other
\* tab has not yet processed the notification of that toggle.
C16_Witness ==
  \E v, w \in Views :
    /\ v # w
    /\ tabs[v].status = "Loaded"
    /\ tabs[v].isCompleted
    /\ ChapterOf(v).id \in tabs[v].completedChapters
    /\ ~tabs[v].pending
    /\ tabs[w].status = "Loaded"
    /\ tabs[w].pending
    /\ ChapterOf(v).id \notin tabs[w].completedChapters

\* C17: on every toggle the record is written before the notification is
\* emitted: the originating tab's listener, run by the dispatched event,
\* reads the record that toggle wrote; a notification is queued for another
\* tab only together with the changed record; and a listener that handles a
\* queued notification loads the record as stored then.
C17_WritePrecedesNotify ==
  [][\A v \in Views :
       /\ Toggle(v) =>
            /\ tabs'[v].completedChapters = StoredIds'
            /\ \A w \in Views \ {v} :
                 (tabs'[w].pending /\ ~tabs[w].pending) =>
                   /\ storage' # storage
                   /\ storage' = JSONstringify(toggledRecord(storage,
                                   tabs[v].isCompleted, ChapterOf(v).id))
       /\ Deliver(v) => tabs'[v].completedChapters = StoredIds']_vars

\* A tab has handled the notification of another tab's toggle: its sidebar
\* shows the chapter the other tab completed, its own page is on another
\* chapter.
C17_Witness ==
  \E v, w \in Views :
    /\ v # w
    /\ tabs[v].status = "Loaded" /\ tabs[w].status = "Loaded"
    /\ tabs[v].isCompleted
    /\ tabs[v].slug # tabs[w].slug
    /\ ~tabs[w].pending /\ ~tabs[w].isCompleted
    /\ StoredIds = {ChapterOf(v).id}
    /\ tabs[w].completedChapters = StoredIds

\* C18: a view goes Uninitialized -> Loaded -> Unmounted: a mounted sidebar
\* has exactly one change listener registered, also after route changes
\* re-ran its effect; an unmounted view has none, no step changes it any
\* more (it reacts to no later notification and never leaves Unmounted).
C18_ViewLifecycle ==
  [][\A v \in Views :
       /\ tabs'[v].status = "Loaded" => tabs'[v].listeners = 1
       /\ tabs'[v].status = "Unmounted" => tabs'[v].listeners = 0
       /\ tabs[v].status = "Unmounted" => tabs'[v] = tabs[v]
       /\ tabs'[v].status # tabs[v].status =>
            <<tabs[v].status, tabs'[v].status>> \in
              {<<"Uninitialized", "Loaded">>, <<"Loaded", "Unmounted">>}]_vars

\* One tab was closed; the other completed chapters on two routes (so its
\* effect ran again on a route change) and still has one listener.
C18_Witness ==
  \E v, w \in Views :
    /\ tabs[v].status = "Unmounted"
    /\ tabs[w].status = "Loaded"
    /\ tabs[w].listeners = 1
    /\ Cardinality(tabs[w].completedChapters) = 2
    /\ tabs[w].isCompleted

C20_CatalogNeverMutated ==
  [][catalog' = catalog]_vars

\* The build listing was generated and a chapter page reached through a
\* Next or Previous link, on a catalog that lists part 2 first.
C20_Witness ==
  /\ catalogDef.name = "alternative"
  /\ catalogDef.first = 2
  /\ build.done
  /\ page.shown = "chapter"
  /\ nav.via \in {"next", "previous"}

\* C21: on every displayed chapter route exactly one sidebar entry is marked
\* active, the entry of the chapter whose slug equals the route's slug.
C21_ExactlyOneActiveEntry ==
  page.shown = "chapter" =>
    /\ activeEntries(catalog, pathname(page.part, page.slug))
         = {at \in Listed(catalog) : ChapterAt(catalog, at).slug = page.slug}
    /\ Cardinality(activeEntries(catalog, pathname(page.part, page.slug))) = 1

\* C22: whenever a chapter page is displayed after following an in-app link
\* (sidebar, overview, home, previous/next) the part the sidebar opens is
\* the part whose chapter list contains the displayed chapter.
C22_AutoOpenOwningPart ==
  (page.shown = "chapter" /\ nav.via \in {"link", "next", "previous"}) =>
    openedParts(catalog, pathname(page.part, page.slug))
      = {at[1] : at \in {a \in Listed(catalog) : ChapterAt(catalog, a) = page.chapter}}

C24_PageFlagFollowsStorage ==
  \A v \in Views :
    (tabs[v].status = "Loaded" /\ ~tabs[v].pending /\ ChapterOf(v) # undefined)
      => (tabs[v].isCompleted = (ChapterOf(v).id \in StoredIds))

\* Every mounted sidebar displays the stored set.
Converged ==
  \A v \in Views :
    tabs[v].status = "Loaded" => tabs[v].completedChapters = StoredIds

\* C25: if toggles stop and every emitted notification is eventually
\* delivered, then eventually every mounted sidebar's displayed set equals
\* the stored set, and stays equal from then on.
\* (A toggle that changes anything flips the page's flag, so the steps that
\* flip no flag are set aside before the handler is compared.)
C25_EventualConvergence ==
  ([]<><<\E v \in Views :
          /\ tabs'[v].isCompleted # tabs[v].isCompleted
          /\ Toggle(v)>>_vars) \/ <>[]Converged

\* A mounted sidebar that differs from the stored set, with the
\* notification of the change still undelivered.
C25_Witness ==
  \E v \in Views :
    /\ tabs[v].status = "Loaded"
    /\ tabs[v].pending
    /\ tabs[v].completedChapters # StoredIds

\* C26: a toggle of chapter X in any view never changes the persisted
\* membership of any other chapter Y, also when other views toggled Y since
\* this view last loaded the record.
C26_ToggleLeavesOthers ==
  [][\A v \in Views :
       Toggle(v) =>
         \A Y \in ChapterIds \ {ChapterOf(v).id} :
           (Y \in StoredIds') = (Y \in StoredIds)]_vars

\* Two tabs on different chapters have each completed their own chapter:
\* the record holds both.
C26_Witness ==
  \E v, w \in Views :
    /\ tabs[v].status = "Loaded" /\ tabs[w].status = "Loaded"
    /\ tabs[v].slug # tabs[w].slug
    /\ tabs[v].isCompleted /\ tabs[w].isCompleted
    /\ StoredIds = {ChapterOf(v).id, ChapterOf(w).id}

RECURSIVE SumCompleted(_)
SumCompleted(badges) ==
  IF badges = <<>> THEN 0
  ELSE Head(badges).completed + SumCompleted(Tail(badges))

\* C27: starting from an absent store, after any sequence of toggles from
\* any views the persisted record holds only identifiers of catalog
\* chapters; so the count a sidebar displays never exceeds the number of
\* catalog chapters and equals the sum of the per-part counts it displays.
C27_CountsWithinCatalog ==
  /\ StoredIds \subseteq ChapterIds
  /\ \A v \in Views :
       tabs[v].status = "Loaded" =>
         /\ progressCounter(tabs[v].completedChapters).completed
              <= Len(getAllChapters(catalog))
         /\ progressCounter(tabs[v].completedChapters).completed
              = SumCompleted(partBadges(catalog, tabs[v].completedChapters))

\* A sidebar that displays two completed chapters, one in each of two parts.
C27_Witness ==
  \E v \in Views :
    /\ tabs[v].status = "Loaded"
    /\ progressCounter(tabs[v].completedChapters).completed = 2
    /\ partBadges(catalog, tabs[v].completedChapters)[1].completed = 1
    /\ partBadges(catalog, tabs[v].completedChapters)[2].completed = 1

\* The chapter links the application renders: sidebar, course overview and
\* home page, and the previous/next buttons of the displayed chapter page.
RenderedLinks ==
  sidebarLinks(catalog) \cup courseOverviewLinks(catalog) \cup homeLinks(catalog)
    \cup (IF page.shown = "chapter"
          THEN {page.nextHref, page.previousHref} \ {NoRoute}
          ELSE {})

\* C28: every chapter link the application renders targets a (part, slug)
\* pair among the route parameters generateStaticParams produced for the
\* static export.
C28_LinksAreGeneratedRoutes ==
  build.done =>
    \A href \in RenderedLinks :
      \E i \in 1..Len(build.params) : build.params[i] = href

\* C29: a started Typewriter with a fixed text always displays the prefix of
\* the text of length currentIndex, 0 <= currentIndex <= text.length, and
\* nothing before the start delay elapsed; the display changes only by a
\* timer tick appending the next character; with timers firing fairly the
\* full text is displayed in the end (while the component stays mounted) and
\* then never changes.
C29_TypewriterTypesText ==
  /\ [](typewriter.status = "mounted" =>
          /\ typewriter.currentIndex \in 0..Len(typewriter.text)
          /\ typewriter.displayedText
               = SubSeq(typewriter.text, 1, typewriter.currentIndex)
          /\ ~typewriter.started => typewriter.displayedText = "")
  /\ [][typewriter'.displayedText # typewriter.displayedText =>
          /\ CharTimeoutFires
          /\ typewriter.displayedText # typewriter.text
          /\ typewriter'.currentIndex = typewriter.currentIndex + 1
          /\ typewriter'.displayedText
               = SubSeq(typewriter.text, 1, typewriter.currentIndex + 1)]_vars
  /\ (typewriter.status = "mounted")
       ~> (typewriter.status = "unmounted"
             \/ typewriter.displayedText = typewriter.text)

\* A text of the greatest length is displayed in full.
C29_Witness ==
  /\ typewriter.status = "mounted"
  /\ typewriter.started
  /\ typewriter.displayedText = typewriter.text
  /\ typewriter.text = "aba"

\* C30: MultilineTypewriter reveals its lines strictly in sequence: a line
\* is rendered (begins typing) only when every line before it is displayed
\* in full, and currentLine never exceeds lines.length - 1, also when the
\* parent renders again while a lineDelay timeout is pending.
C30_LinesInSequence ==
  multiline.status = "mounted" =>
    /\ multiline.currentLine <= Len(multiline.lines) - 1
    /\ \A index \in 1..(Len(multiline.lines) - 1) :
         lineMounted(multiline, index) => lineComplete(multiline, index - 1)

====
